---- MODULE Spec2Model ----
(***************************************************************************)
(* Delivery orchestration layer of mns-terminal:                           *)
(*   DeliveryController (infrastructure/delivery/deliveryController.ts)    *)
(*   SSEClient          (infrastructure/sse/sseClient.ts, current version) *)
(* The browser event loop is single threaded: every action below is one    *)
(* whole handler run (public call, transport event, timer fire or fetch    *)
(* continuation), with every synchronous callback it makes included.       *)
(***************************************************************************)
EXTENDS Integers, Sequences, FiniteSets, TLC

(* ---------------- program constants ---------------- *)
maxRetries == 5
throttleMs == 2          \* DEFAULT_CONFIG.throttleMs (1000 ms) in units of 500 ms

SSE_PRIMARY == "SSE_PRIMARY"
REST_DEGRADED == "REST_DEGRADED"
DeliveryMode == {SSE_PRIMARY, REST_DEGRADED}

DISCONNECTED == "DISCONNECTED"
CONNECTING == "CONNECTING"
CONNECTED == "CONNECTED"
ERROR == "ERROR"
SSEConnectionState == {DISCONNECTED, CONNECTING, CONNECTED, ERROR}

(* EventSource.readyState of the transport a client holds; "null" when the
   client holds no EventSource object. *)
ES_NULL == "null"
ES_CONNECTING == "ES_CONNECTING"
ES_OPEN == "ES_OPEN"
ES_CLOSED == "ES_CLOSED"

(* ---------------- bounds of the exploration ---------------- *)
MaxErrorCount == 6
MaxModeLog == 4
MaxInflight == 2
MaxStarts == 2
SilenceLimit == 2     \* whole minutes without data that are told apart on an open transport
MaxEpoch == 3         \* validationEpoch is explored up to this value
MaxTier == 3          \* meta.tier of a decoded payload ranges over NoTier, 0..MaxTier

(* ---------------- state ---------------- *)
VARIABLES
  isStarted,          \* DeliveryController.isStarted
  currentMode,        \* DeliveryController.currentMode
  sseErrorCount,      \* DeliveryController.sseErrorCount
  retryTimer,         \* DeliveryController.retryTimer: "null", "pending", or "stale" (handle kept after fire/clear)
  retryDelay,         \* delay in ms of the last setTimeout that scheduled a retry (0: none yet)
  restPollingTimer,   \* DeliveryController.restPollingTimer /= null
  sseRecoveryTimer,   \* DeliveryController.sseRecoveryTimer /= null
  sseClient,          \* DeliveryController.sseClient: NoClient or the SSEClient's fields
  inflight,           \* pull fetches awaiting their response, in issue order
  orphans,            \* live EventSource transports no client object of the controller refers to
  eventSourceAvailable, \* whether `new EventSource(...)` succeeds in this runtime
  validationEpoch,    \* main.ts validationEpoch
  currentPacket,      \* main.ts currentPacket, with the render it was shown by
  validations,        \* updateState calls suspended at an await inside validatePacket
  build,              \* which version of main.ts is running
  payload,            \* the decoded payload whose validation is being compared
  verdict,            \* what the push path and the pull path did with `payload`
  cb,                 \* consumer callbacks invoked by the last handler run, in order
  staleForward,       \* the last handler run forwarded a pull response that a later request's
                      \* response had already overtaken
  logsEventData,      \* the last handler run passed event.data / a response body to console.*
  lastOp,             \* the last handler run
  lastInput,          \* the MessageEvent / fetch settlement the last handler run received
  modeLog,            \* every onModeChange argument since construction
  consecErrors,       \* push Error state changes handled since the last Connected / start()
  everConnected,      \* a push Connected state change has been handled since construction
  starts,             \* number of start() calls that took effect
  connectedSinceDegrade \* a push Connected has been handled and no degrade has run since

vars == <<isStarted, currentMode, sseErrorCount, retryTimer, retryDelay, restPollingTimer,
          sseRecoveryTimer, sseClient, inflight, orphans, eventSourceAvailable,
          validationEpoch, currentPacket, validations, build,
          payload, verdict, cb, staleForward, logsEventData, lastOp, lastInput, modeLog,
          consecErrors, everConnected, starts, connectedSinceDegrade>>

progVars == <<isStarted, currentMode, sseErrorCount, retryTimer, retryDelay, restPollingTimer,
              sseRecoveryTimer, sseClient, inflight, orphans>>

mainVars == <<validationEpoch, currentPacket, validations, build>>

NoClient == [state |-> "null", eventSource |-> ES_NULL, sinceLast |-> 0,
             sinceForward |-> 0, silence |-> 0, handlers |-> "none"]

(* new SSEClient(...): state DISCONNECTED, eventSource null, lastMessageTime 0
   (Date.now() - 0 is far beyond throttleMs, so the elapsed time saturates). *)
NewClient == [state |-> DISCONNECTED, eventSource |-> ES_NULL, sinceLast |-> throttleMs,
              sinceForward |-> throttleMs, silence |-> 0, handlers |-> "controller"]

(* new SSEClient(config, handlers) by a caller other than the controller, whose handlers
   only record the callbacks they receive *)
RecorderClient == [NewClient EXCEPT !.handlers = "recorder"]

(* 1 when dropping the reference to this client leaves its transport running *)
Live(client) == IF client.eventSource \in {ES_CONNECTING, ES_OPEN} THEN 1 ELSE 0

(* The whole state as one record, so that handlers compose as functions. *)
State ==
  [isStarted |-> isStarted, currentMode |-> currentMode, sseErrorCount |-> sseErrorCount,
   retryTimer |-> retryTimer, retryDelay |-> retryDelay,
   restPollingTimer |-> restPollingTimer,
   sseRecoveryTimer |-> sseRecoveryTimer, sseClient |-> sseClient,
   inflight |-> inflight, orphans |-> orphans,
   eventSourceAvailable |-> eventSourceAvailable,
   cb |-> <<>>, staleForward |-> FALSE, logsEventData |-> FALSE, modeLog |-> modeLog, consecErrors |-> consecErrors,
   everConnected |-> everConnected, starts |-> starts,
   connectedSinceDegrade |-> connectedSinceDegrade]

(* ---------------- decoded JSON values ---------------- *)

NoTier == 0 - 1       \* meta.tier is undefined

(* A value as JSON.parse / response.json() yields it, reduced to what normalizePacket and
   isValidPacketStructure inspect: kind "unparseable" (the parse throws), "primitive"
   (number, string, null, ...) or "object"; nav / meta / navigator are "absent", "primitive"
   or "object"; a field flag is TRUE when the field has the type the strict rules ask for
   (string, or array for drivers / blockers / gaps). *)
EmptyObject ==
  [kind |-> "object",
   nav |-> "absent", regime |-> FALSE, risk |-> FALSE, confidence |-> FALSE,
   bias |-> FALSE, stability |-> FALSE,
   meta |-> "absent", tier |-> NoTier, signature |-> FALSE, kid |-> FALSE, issued_at |-> FALSE,
   navigator |-> "absent", drivers |-> FALSE, blockers |-> FALSE, gaps |-> FALSE]

Unparseable == [EmptyObject EXCEPT !.kind = "unparseable"]
Primitive == [EmptyObject EXCEPT !.kind = "primitive"]
NullPacket == [EmptyObject EXCEPT !.kind = "null"]
NavOnly == [EmptyObject EXCEPT !.nav = "object"]
Tier0Packet == [NavOnly EXCEPT !.regime = TRUE, !.risk = TRUE, !.confidence = TRUE]

\* every object shape: nav, its five fields, meta, tier, its three fields, navigator, its arrays
Payloads ==
  { [kind |-> "object",
     nav |-> n.nav, regime |-> n.regime, risk |-> n.risk, confidence |-> n.confidence,
     bias |-> n.bias, stability |-> n.stability,
     meta |-> m.meta, tier |-> m.tier, signature |-> m.signature, kid |-> m.kid,
     issued_at |-> m.issued_at,
     navigator |-> g.navigator, drivers |-> g.drivers, blockers |-> g.blockers, gaps |-> g.gaps] :
    n \in { x \in [nav : {"absent", "primitive", "object"}, regime : BOOLEAN, risk : BOOLEAN,
                    confidence : BOOLEAN, bias : BOOLEAN, stability : BOOLEAN] :
            x.nav /= "object" =>
              ~(x.regime \/ x.risk \/ x.confidence \/ x.bias \/ x.stability) },
    m \in { x \in [meta : {"absent", "object"}, tier : NoTier..MaxTier, signature : BOOLEAN,
                    kid : BOOLEAN, issued_at : BOOLEAN] :
            x.meta = "absent" =>
              (x.tier = NoTier /\ ~(x.signature \/ x.kid \/ x.issued_at)) },
    g \in { x \in [navigator : {"absent", "object"}, drivers : BOOLEAN, blockers : BOOLEAN,
                    gaps : BOOLEAN] :
            x.navigator = "absent" => ~(x.drivers \/ x.blockers \/ x.gaps) } }

\* the values the transport events and pull responses of the controller runs carry
SampleJson == {Unparseable, Primitive, EmptyObject, NavOnly, Tier0Packet}

(* ---------------- DeliveryController / SSEClient operations ---------------- *)

RECURSIVE handleSSEStateChange(_, _)

\* setMode without the early return on an unchanged mode
setMode_unguarded(s, newMode) ==
  [s EXCEPT !.currentMode = newMode,
            !.modeLog = Append(@, newMode),
            !.cb = Append(@, <<"onModeChange", newMode>>)]

\* DeliveryController.setMode
setMode(s, newMode) ==
  IF s.currentMode = newMode THEN s
  ELSE [s EXCEPT !.currentMode = newMode,
                 !.modeLog = Append(@, newMode),
                 !.cb = Append(@, <<"onModeChange", newMode>>)]

\* DeliveryController.handleSSEError
handleSSEError(s) == [s EXCEPT !.cb = Append(@, <<"onError", "lifecycle">>)]

\* this.handlers.onError(...) of the SSEClient
onError(s, handlers) ==
  IF handlers = "controller" THEN handleSSEError(s)
  ELSE [s EXCEPT !.cb = Append(@, <<"onError", "client">>)]

\* SSEClient.setState
setState(s, newState) ==
  IF s.sseClient.state = newState THEN s
  ELSE LET s1 == [s EXCEPT !.sseClient.state = newState]
       IN IF s1.sseClient.handlers = "controller"
          THEN handleSSEStateChange(s1, newState)
          ELSE [s1 EXCEPT !.cb = Append(@, <<"onStateChange", newState>>)]

\* disconnect() that drops the EventSource without close()
disconnect_noClose(s) ==
  IF s.sseClient.eventSource = ES_NULL THEN s
  ELSE LET released == [s EXCEPT !.orphans = @ + Live(s.sseClient),
                                 !.sseClient.eventSource = ES_NULL]
       IN setState(released, DISCONNECTED)

\* SSEClient.disconnect
disconnect(s) ==
  IF s.sseClient.eventSource = ES_NULL THEN s
  ELSE LET closed == [s EXCEPT !.sseClient.eventSource = ES_CLOSED]
           released == [closed EXCEPT !.orphans = @ + Live(closed.sseClient),
                                      !.sseClient.eventSource = ES_NULL]
       IN setState(released, DISCONNECTED)

\* DeliveryController.stopSSEMode
stopSSEMode(s) ==
  IF s.sseClient /= NoClient
  THEN LET s1 == disconnect(s)
       IN [s1 EXCEPT !.orphans = @ + Live(s1.sseClient), !.sseClient = NoClient]
  ELSE s

\* stopRESTMode that forgets the pull-poll interval
stopRESTMode_keepsPolling(s) ==
  [s EXCEPT !.sseRecoveryTimer = FALSE]

\* DeliveryController.stopRESTMode
stopRESTMode(s) ==
  [s EXCEPT !.restPollingTimer = FALSE, !.sseRecoveryTimer = FALSE]

\* DeliveryController.pollRESTEndpoint, up to its first await: the request is issued
pollRESTEndpoint(s) ==
  [s EXCEPT !.inflight = Append(@, [overtaken |-> FALSE])]

\* degradeToRESTMode without the stopSSEMode() call
degradeToRESTMode_keepsClient(s) ==
  LET s2 == [s EXCEPT !.restPollingTimer = TRUE, !.sseRecoveryTimer = TRUE,
                      !.connectedSinceDegrade = FALSE]
      s3 == setMode(s2, REST_DEGRADED)
  IN pollRESTEndpoint(s3)

\* degradeToRESTMode without the immediate first poll
degradeToRESTMode_noImmediatePoll(s) ==
  LET s1 == stopSSEMode(s)
      s2 == [s1 EXCEPT !.restPollingTimer = TRUE, !.sseRecoveryTimer = TRUE,
                       !.connectedSinceDegrade = FALSE]
  IN setMode(s2, REST_DEGRADED)

\* DeliveryController.degradeToRESTMode
degradeToRESTMode(s) ==
  LET s1 == stopSSEMode(s)
      s2 == [s1 EXCEPT !.restPollingTimer = TRUE, !.sseRecoveryTimer = TRUE,
                       !.connectedSinceDegrade = FALSE]
      s3 == setMode(s2, REST_DEGRADED)
  IN pollRESTEndpoint(s3)

Min(a, b) == IF a < b THEN a ELSE b

\* backoff that doubles once too often (2^n instead of 2^(n-1))
backoffMs_doubled(n) == Min(1000 * 2^n, 16000)

\* the backoffMs expression of handleSSEStateChange: Math.min(1000 * Math.pow(2, n - 1), 16000)
backoffMs(n) == Min(1000 * 2^(n - 1), 16000)

\* handleSSEStateChange whose CONNECTED branch leaves the error counter alone
handleSSEStateChange_keepsCount(s, state) ==
  IF state = ERROR THEN
    LET s1 == [s EXCEPT !.sseErrorCount = @ + 1, !.consecErrors = @ + 1]
    IN IF s1.sseErrorCount >= maxRetries
       THEN degradeToRESTMode(s1)
       ELSE [s1 EXCEPT !.retryTimer = "pending",
                       !.retryDelay = backoffMs(s1.sseErrorCount)]
  ELSE IF state = CONNECTED THEN
    LET s1 == [s EXCEPT !.consecErrors = 0,
                        !.everConnected = TRUE,
                        !.connectedSinceDegrade = TRUE,
                        !.retryTimer = IF @ /= "null" THEN "null" ELSE @]
    IN IF s1.currentMode /= SSE_PRIMARY THEN setMode(s1, SSE_PRIMARY) ELSE s1
  ELSE s

\* handleSSEStateChange that schedules a retry even when it degrades
handleSSEStateChange_alwaysRetries(s, state) ==
  IF state = ERROR THEN
    LET s1 == [s EXCEPT !.sseErrorCount = @ + 1, !.consecErrors = @ + 1]
    IN IF s1.sseErrorCount >= maxRetries
       THEN [degradeToRESTMode(s1) EXCEPT !.retryTimer = "pending"]
       ELSE [s1 EXCEPT !.retryTimer = "pending",
                       !.retryDelay = backoffMs(s1.sseErrorCount)]
  ELSE IF state = CONNECTED THEN
    LET s1 == [s EXCEPT !.sseErrorCount = 0,
                        !.consecErrors = 0,
                        !.everConnected = TRUE,
                        !.connectedSinceDegrade = TRUE,
                        !.retryTimer = IF @ /= "null" THEN "null" ELSE @]
    IN IF s1.currentMode /= SSE_PRIMARY THEN setMode(s1, SSE_PRIMARY) ELSE s1
  ELSE s

\* DeliveryController.handleSSEStateChange
handleSSEStateChange(s, state) ==
  IF state = ERROR THEN
    LET s1 == [s EXCEPT !.sseErrorCount = @ + 1, !.consecErrors = @ + 1]
    IN IF s1.sseErrorCount >= maxRetries
       THEN degradeToRESTMode(s1)
       ELSE [s1 EXCEPT !.retryTimer = "pending",
                       !.retryDelay = backoffMs(s1.sseErrorCount)]
  ELSE IF state = CONNECTED THEN
    LET s1 == [s EXCEPT !.sseErrorCount = 0,
                        !.consecErrors = 0,
                        !.everConnected = TRUE,
                        !.connectedSinceDegrade = TRUE,
                        !.retryTimer = IF @ /= "null" THEN "null" ELSE @]
    IN IF s1.currentMode /= SSE_PRIMARY THEN setMode(s1, SSE_PRIMARY) ELSE s1
  ELSE s

\* SSEClient.connect
connect(s) ==
  IF s.sseClient.eventSource /= ES_NULL THEN s
  ELSE LET s1 == setState(s, CONNECTING)
       IN IF s1.eventSourceAvailable
          THEN [s1 EXCEPT !.sseClient.eventSource = ES_CONNECTING]
          ELSE onError(setState(s1, ERROR), s.sseClient.handlers)

\* DeliveryController.startSSEMode
startSSEMode(s) ==
  LET s1 == stopRESTMode(s)
      s2 == [s1 EXCEPT !.orphans = @ + Live(s1.sseClient), !.sseClient = NewClient]
      s3 == connect(s2)
  IN setMode(s3, SSE_PRIMARY)

\* start() without the isStarted guard
start_unguarded(s) ==
  startSSEMode([s EXCEPT !.isStarted = TRUE, !.starts = @ + 1, !.consecErrors = 0])

\* DeliveryController.start
start(s) ==
  IF s.isStarted THEN s
  ELSE startSSEMode([s EXCEPT !.isStarted = TRUE, !.starts = @ + 1, !.consecErrors = 0])

\* stop() that leaves the retry timeout alone
stop_keepsRetryTimer(s) ==
  IF ~s.isStarted THEN s
  ELSE LET s1 == stopRESTMode(stopSSEMode(s))
       IN [s1 EXCEPT !.sseErrorCount = 0, !.isStarted = FALSE]

\* DeliveryController.stop
stop(s) ==
  IF ~s.isStarted THEN s
  ELSE LET s1 == stopRESTMode(stopSSEMode(s))
       IN [s1 EXCEPT !.retryTimer = IF @ /= "null" THEN "null" ELSE @,
                     !.sseErrorCount = 0,
                     !.isStarted = FALSE]

\* DeliveryController.handleSSEMessage
handleSSEMessage(s) ==
  [s EXCEPT !.sseErrorCount = 0,
            !.cb = Append(@, <<"onPacket", SSE_PRIMARY>>)]

\* this.handlers.onMessage(packet) of the SSEClient
onMessage(s) ==
  LET s1 == [s EXCEPT !.sseClient.sinceForward = 0]
  IN IF s.sseClient.handlers = "controller" THEN handleSSEMessage(s1)
     ELSE [s1 EXCEPT !.cb = Append(@, <<"onMessage", "packet">>)]

\* normalizePacket that lets a payload without nav through
normalizePacket_noNavCheck(p) ==
  [p EXCEPT !.regime = TRUE, !.risk = TRUE, !.confidence = TRUE,
            !.tier = IF p.meta = "object" /\ @ = NoTier THEN 0 ELSE @,
            !.drivers = IF p.navigator = "object" THEN TRUE ELSE @,
            !.blockers = IF p.navigator = "object" THEN TRUE ELSE @,
            !.gaps = IF p.navigator = "object" THEN TRUE ELSE @]

\* SSEClient.normalizePacket (tolerant): null unless payload.nav is a non-null object;
\* regime / risk / confidence default to "unknown", meta.tier to 0, navigator arrays to []
normalizePacket(p) ==
  IF p.nav /= "object" THEN NullPacket
  ELSE [p EXCEPT !.regime = TRUE, !.risk = TRUE, !.confidence = TRUE,
                 !.tier = IF p.meta = "object" /\ @ = NoTier THEN 0 ELSE @,
                 !.drivers = IF p.navigator = "object" THEN TRUE ELSE @,
                 !.blockers = IF p.navigator = "object" THEN TRUE ELSE @,
                 !.gaps = IF p.navigator = "object" THEN TRUE ELSE @]

\* handleNavUpdate that never updates lastMessageTime
handleNavUpdate_noTimestamp(s, event) ==
  IF s.sseClient.sinceLast < throttleMs THEN s
  ELSE IF event.data \in {"empty", "non_string"} THEN s
  ELSE IF event.data = "too_large" THEN s
  ELSE IF event.parsed.kind = "unparseable" THEN s
  ELSE IF event.parsed.kind /= "object" THEN s
  ELSE IF normalizePacket(event.parsed) = NullPacket THEN s
  ELSE onMessage(s)

\* SSEClient.handleNavUpdate
handleNavUpdate(s, event) ==
  IF s.sseClient.sinceLast < throttleMs THEN s
  ELSE IF event.data \in {"empty", "non_string"} THEN s
  ELSE IF event.data = "too_large" THEN s
  ELSE IF event.parsed.kind = "unparseable" THEN s
  ELSE IF event.parsed.kind /= "object" THEN s
  ELSE IF normalizePacket(event.parsed) = NullPacket THEN s
  ELSE onMessage([s EXCEPT !.sseClient.sinceLast = 0])

\* SSEClient.handleDefaultMessage: console.log("... Message received:", event.data) first
handleDefaultMessage(s, event) ==
  handleNavUpdate([s EXCEPT !.logsEventData = TRUE], event)

\* SSEClient.handleKeepAlive (the controller registers no onKeepAlive)
handleKeepAlive(s) == s

\* SSEClient.handleOpen (the controller registers no onOpen)
handleOpen(s) == setState(s, CONNECTED)

\* SSEClient.handleError
handleError(s) ==
  IF s.sseClient.eventSource = ES_CLOSED
  THEN onError(setState(s, ERROR), s.sseClient.handlers)
  ELSE s

\* retry callback that tears the client down and creates no new one
retryCallback_noRestart(s) == stopSSEMode(s)

\* the retry timer callback scheduled in handleSSEStateChange
retryCallback(s) == startSSEMode(stopSSEMode(s))

\* DeliveryController.attemptSSERecovery
attemptSSERecovery(s) == startSSEMode(stopRESTMode(s))

RemoveAt(seq, i) == SubSeq(seq, 1, i - 1) \o SubSeq(seq, i + 1, Len(seq))

\* DeliveryController.isValidPacketStructure (strict, per tier)
isValidPacketStructure(packet) ==
  IF packet.kind /= "object" THEN FALSE
  ELSE IF packet.nav /= "object" THEN FALSE
  ELSE LET tier == IF packet.meta = "object" /\ packet.tier /= NoTier THEN packet.tier ELSE 0
       IN IF tier \notin {0, 1, 2} THEN FALSE
          ELSE IF tier = 0
          THEN packet.regime /\ packet.risk /\ packet.confidence
          ELSE IF packet.meta /= "object" THEN FALSE
          ELSE IF ~packet.signature \/ ~packet.kid \/ ~packet.issued_at THEN FALSE
          ELSE IF ~packet.bias \/ ~packet.stability THEN FALSE
          ELSE IF tier = 2
          THEN IF packet.navigator /= "object" THEN FALSE
               ELSE IF ~packet.drivers \/ ~packet.blockers \/ ~packet.gaps THEN FALSE
               ELSE TRUE
          ELSE TRUE

\* pollRESTEndpoint whose non-2xx branch counts as a push error
pollRESTContinuation_countsFailure(s, i, response) ==
  LET rest == [s EXCEPT !.inflight = RemoveAt(@, i)]
  IN IF response.rejects THEN rest
     ELSE IF ~response.ok THEN [rest EXCEPT !.sseErrorCount = @ + 1]
     ELSE IF response.contentType /= "application/json" THEN rest
     ELSE IF response.body.kind = "unparseable" THEN rest
     ELSE IF ~isValidPacketStructure(response.body) THEN rest
     ELSE [s EXCEPT !.inflight = RemoveAt([j \in 1..Len(@) |->
                                     IF j < i THEN [@[j] EXCEPT !.overtaken = TRUE] ELSE @[j]], i),
                    !.staleForward = s.inflight[i].overtaken,
                    !.cb = Append(@, <<"onPacket", REST_DEGRADED>>)]

\* DeliveryController.pollRESTEndpoint, from the fetch's settlement on
pollRESTContinuation(s, i, response) ==
  LET rest == [s EXCEPT !.inflight = RemoveAt(@, i)]
  IN IF response.rejects THEN rest
     ELSE IF ~response.ok THEN rest
     ELSE IF response.contentType /= "application/json" THEN rest
     ELSE IF response.body.kind = "unparseable" THEN rest
     ELSE IF ~isValidPacketStructure(response.body) THEN rest
     ELSE [s EXCEPT !.inflight = RemoveAt([j \in 1..Len(@) |->
                                     IF j < i THEN [@[j] EXCEPT !.overtaken = TRUE] ELSE @[j]], i),
                    !.staleForward = s.inflight[i].overtaken,
                    !.cb = Append(@, <<"onPacket", REST_DEGRADED>>)]

(* ---------------- main.ts: validation and state management ---------------- *)

\* the two versions of main.ts in the repository
Builds == {"src/main.ts", "part_016"}

(* main.ts state as one record *)
MainState ==
  [validationEpoch |-> validationEpoch, currentPacket |-> currentPacket,
   validations |-> validations, build |-> build]

\* let currentPacket = null
NullCurrentPacket == [shown |-> "null", tier |-> 0, from |-> 0, signatureValid |-> FALSE]

\* { tier: 0, packet: STATIC_NAV_PACKET }
StaticResult == [shown |-> "static", tier |-> 0, signatureValid |-> FALSE]

\* { tier: tier, packet: packet }
PacketResult(packet) ==
  [shown |-> "packet", tier |-> packet.tier, signatureValid |-> packet.signatureValid]

\* sanitizeAll
sanitizeAll(m) ==
  [m EXCEPT !.validationEpoch = @ + 1,
            !.currentPacket = [shown |-> "stale", tier |-> 0, from |-> m.validationEpoch + 1,
                               signatureValid |-> FALSE]]

\* updateState after its await, written without the epoch comparison
updateStateResume_noEpochCheck(m, currentEpoch, result) ==
  [m EXCEPT !.currentPacket = [shown |-> result.shown, tier |-> result.tier,
                               from |-> currentEpoch,
                               signatureValid |-> result.signatureValid]]

\* updateState from the settlement of `await validatePacket(...)` on
updateStateResume(m, currentEpoch, result) ==
  IF currentEpoch /= m.validationEpoch THEN m
  ELSE [m EXCEPT !.currentPacket = [shown |-> result.shown, tier |-> result.tier,
                                    from |-> currentEpoch,
                                    signatureValid |-> result.signatureValid]]

\* validatePacket up to `await importPublicKey(...)`: the result, or "pending" when it awaits
validatePacketStart(m, packet, epoch) ==
  IF epoch /= m.validationEpoch THEN StaticResult
  ELSE IF packet.tier = 0
       THEN IF ~packet.structural THEN StaticResult ELSE PacketResult(packet)
  ELSE IF ~packet.structural THEN StaticResult
  ELSE IF ~packet.trusted THEN StaticResult
  ELSE [shown |-> "pending", tier |-> 0, signatureValid |-> FALSE]

\* updateState up to the first await that really suspends
updateState(m, packet) ==
  LET currentEpoch == m.validationEpoch + 1
      m1 == [m EXCEPT !.validationEpoch = currentEpoch]
  IN IF ~packet.object THEN sanitizeAll(m1)
     ELSE LET result == validatePacketStart(m1, packet, currentEpoch)
          IN IF result.shown = "pending"
             THEN [m1 EXCEPT !.validations =
                     @ \cup {[epoch |-> currentEpoch, packet |-> packet,
                              stage |-> "importPublicKey"]}]
             ELSE updateStateResume(m1, currentEpoch, result)

\* validatePacket from the settlement of `await importPublicKey(...)` on
afterImportPublicKey(m, v) ==
  LET rest == [m EXCEPT !.validations = @ \ {v}]
  IN IF v.epoch /= m.validationEpoch
     THEN updateStateResume(rest, v.epoch, StaticResult)
     ELSE [rest EXCEPT !.validations = @ \cup {[v EXCEPT !.stage = "verifySignature"]}]

\* validatePacket from the settlement of `await verifySignature(...)` on; the later
\* version's test is `if (false && !valid)`
afterVerifySignature(m, v) ==
  LET rest == [m EXCEPT !.validations = @ \ {v}]
      valid == v.packet.signatureValid
  IN IF v.epoch /= m.validationEpoch
     THEN updateStateResume(rest, v.epoch, StaticResult)
     ELSE IF (IF m.build = "part_016" THEN FALSE /\ ~valid ELSE ~valid)
     THEN updateStateResume(rest, v.epoch, StaticResult)
     ELSE updateStateResume(rest, v.epoch, PacketResult(v.packet))

(* ---------------- inputs ---------------- *)

\* what updateState receives: object: typeof packet === "object"; tier: meta.tier ?? 0;
\* structural: unifiedStructuralGuard(packet); trusted: the kid is a trusted key, issued_at
\* is fresh, payload and signature have the right sizes; signatureValid: what
\* verifySignature resolves to
DeliveredPackets ==
  { x \in [object : BOOLEAN, tier : 0..2, structural : BOOLEAN, trusted : BOOLEAN,
           signatureValid : BOOLEAN] :
      /\ ~x.object => (x.tier = 0 /\ ~x.structural)
      /\ (~x.structural \/ x.tier = 0) => ~x.trusted
      /\ ~x.trusted => ~x.signatureValid }

\* MessageEvent of the push stream, as far as handleNavUpdate inspects it
\* data: what event.data is; parsed: what JSON.parse(event.data) yields when it is a string
PushEvents ==
  {[data |-> d, parsed |-> Unparseable] : d \in {"empty", "non_string", "too_large"}}
    \cup {[data |-> "string", parsed |-> j] : j \in SampleJson}

\* settlement of a pull fetch, as far as pollRESTEndpoint inspects it
\* rejects: fetch throws; ok: response.ok; contentType: the content-type header;
\* body: what response.json() yields
PullResponses ==
  {[rejects |-> TRUE, ok |-> FALSE, contentType |-> "null", body |-> Unparseable],
   [rejects |-> FALSE, ok |-> FALSE, contentType |-> "application/json", body |-> Tier0Packet],
   [rejects |-> FALSE, ok |-> TRUE, contentType |-> "null", body |-> Tier0Packet],
   [rejects |-> FALSE, ok |-> TRUE, contentType |-> "text/html", body |-> Tier0Packet]}
    \cup {[rejects |-> FALSE, ok |-> TRUE, contentType |-> "application/json", body |-> j] :
            j \in SampleJson}

NoInput == [none |-> TRUE]
NoVerdict == [push |-> "unchecked", pull |-> "unchecked"]

(* ---------------- actions ---------------- *)

WithinBounds(r) ==
  /\ r.sseErrorCount <= MaxErrorCount
  /\ Len(r.modeLog) <= MaxModeLog
  /\ Len(r.inflight) <= MaxInflight
  /\ r.starts <= MaxStarts

Apply(r) ==
  /\ WithinBounds(r)
  /\ isStarted' = r.isStarted
  /\ currentMode' = r.currentMode
  /\ sseErrorCount' = r.sseErrorCount
  /\ retryTimer' = r.retryTimer
  /\ retryDelay' = r.retryDelay
  /\ restPollingTimer' = r.restPollingTimer
  /\ sseRecoveryTimer' = r.sseRecoveryTimer
  /\ sseClient' = r.sseClient
  /\ inflight' = r.inflight
  /\ orphans' = r.orphans
  /\ eventSourceAvailable' = r.eventSourceAvailable
  /\ cb' = r.cb
  /\ staleForward' = r.staleForward
  /\ logsEventData' = r.logsEventData
  /\ UNCHANGED <<payload, verdict>>
  /\ UNCHANGED mainVars
  /\ modeLog' = r.modeLog
  /\ consecErrors' = r.consecErrors
  /\ everConnected' = r.everConnected
  /\ starts' = r.starts
  /\ connectedSinceDegrade' = r.connectedSinceDegrade

\* new DeliveryController(config, handlers)
\* main.ts module state at load
MainLoaded ==
  /\ validationEpoch = 0
  /\ currentPacket = NullCurrentPacket
  /\ validations = {}

Constructed ==
  /\ isStarted = FALSE
  /\ currentMode = SSE_PRIMARY
  /\ sseErrorCount = 0
  /\ retryTimer = "null"
  /\ retryDelay = 0
  /\ restPollingTimer = FALSE
  /\ sseRecoveryTimer = FALSE
  /\ inflight = <<>>
  /\ orphans = 0
  /\ cb = <<>>
  /\ staleForward = FALSE
  /\ logsEventData = FALSE
  /\ lastInput = NoInput
  /\ modeLog = <<>>
  /\ consecErrors = 0
  /\ everConnected = FALSE
  /\ starts = 0
  /\ connectedSinceDegrade = FALSE

Init ==
  /\ Constructed
  /\ MainLoaded
  /\ build = "src/main.ts"
  /\ sseClient = NoClient
  /\ eventSourceAvailable \in BOOLEAN
  /\ payload = EmptyObject
  /\ verdict = NoVerdict
  /\ lastOp = "new"

\* controller.start()
Start ==
  /\ Apply(start(State))
  /\ lastOp' = "start"
  /\ lastInput' = NoInput

\* controller.stop()
Stop ==
  /\ Apply(stop(State))
  /\ lastOp' = "stop"
  /\ lastInput' = NoInput

\* EventSource fires open
TransportOpen ==
  /\ sseClient.eventSource = ES_CONNECTING
  /\ Apply(handleOpen([State EXCEPT !.sseClient.eventSource = ES_OPEN,
                                     !.sseClient.silence = 0]))
  /\ lastOp' = "open"
  /\ lastInput' = NoInput

\* EventSource fires error and goes on reconnecting by itself (readyState CONNECTING)
TransportErrorTransient ==
  /\ sseClient.eventSource \in {ES_CONNECTING, ES_OPEN}
  /\ Apply(handleError([State EXCEPT !.sseClient.eventSource = ES_CONNECTING]))
  /\ lastOp' = "errorTransient"
  /\ lastInput' = NoInput

\* EventSource fires error after failing the connection (readyState CLOSED)
TransportErrorClosed ==
  /\ sseClient.eventSource \in {ES_CONNECTING, ES_OPEN}
  /\ Apply(handleError([State EXCEPT !.sseClient.eventSource = ES_CLOSED]))
  /\ lastOp' = "errorClosed"
  /\ lastInput' = NoInput

\* a nav_update event arrives
TransportNavUpdate ==
  /\ sseClient.eventSource = ES_OPEN
  /\ \E event \in PushEvents :
       Apply(handleNavUpdate([State EXCEPT !.sseClient.silence = 0], event))
       /\ lastInput' = event
  /\ lastOp' = "nav_update"

\* an event without a name arrives (onmessage)
TransportDefaultMessage ==
  /\ sseClient.eventSource = ES_OPEN
  /\ \E event \in PushEvents :
       Apply(handleDefaultMessage([State EXCEPT !.sseClient.silence = 0], event))
       /\ lastInput' = event
  /\ lastOp' = "message"

\* a keep_alive event arrives
TransportKeepAlive ==
  /\ sseClient.eventSource = ES_OPEN
  /\ Apply(handleKeepAlive([State EXCEPT !.sseClient.silence = 0]))
  /\ lastOp' = "keep_alive"
  /\ lastInput' = NoInput

\* time passes (half a throttle interval)
Tick ==
  /\ sseClient /= NoClient
  /\ sseClient.sinceLast < throttleMs
  /\ Apply([State EXCEPT !.sseClient.sinceLast = @ + 1,
                          !.sseClient.sinceForward = Min(@ + 1, throttleMs)])
  /\ lastOp' = "tick"
  /\ lastInput' = NoInput

\* a minute passes in which the open transport delivers nothing (no client code runs)
SilentMinute ==
  /\ sseClient.eventSource = ES_OPEN
  /\ sseClient.silence < SilenceLimit
  /\ Apply([State EXCEPT !.sseClient.silence = @ + 1,
                          !.sseClient.sinceLast = throttleMs,
                          !.sseClient.sinceForward = throttleMs])
  /\ lastOp' = "silentMinute"
  /\ lastInput' = NoInput

\* the retry timeout fires
RetryTimerFire ==
  /\ retryTimer = "pending"
  /\ Apply(retryCallback([State EXCEPT !.retryTimer = "stale"]))
  /\ lastOp' = "retryFire"
  /\ lastInput' = NoInput

\* the pull-poll interval fires
RestPollTick ==
  /\ restPollingTimer
  /\ Apply(pollRESTEndpoint(State))
  /\ lastOp' = "pollTick"
  /\ lastInput' = NoInput

\* the recovery interval fires
RecoveryTick ==
  /\ sseRecoveryTimer
  /\ Apply(attemptSSERecovery(State))
  /\ lastOp' = "recoveryTick"
  /\ lastInput' = NoInput

\* a pull fetch settles and pollRESTEndpoint resumes
FetchSettle ==
  /\ \E i \in 1..Len(inflight), response \in PullResponses :
       Apply(pollRESTContinuation(State, i, response)) /\ lastInput' = response
  /\ lastOp' = "fetchSettle"

Next ==
  \/ Start
  \/ Stop
  \/ TransportOpen
  \/ TransportErrorTransient
  \/ TransportErrorClosed
  \/ TransportNavUpdate
  \/ TransportDefaultMessage
  \/ TransportKeepAlive
  \/ Tick
  \/ SilentMinute
  \/ RetryTimerFire
  \/ RestPollTick
  \/ RecoveryTick
  \/ FetchSettle

Spec == Init /\ [][Next]_vars

(* ---- the controller under fair timers ----
   setTimeout / setInterval callbacks of an armed timer eventually run; what the
   EventSource transport and the network do is up to the environment. *)
FairSpec ==
  /\ Spec
  /\ WF_vars(RetryTimerFire)
  /\ WF_vars(RestPollTick)
  /\ WF_vars(RecoveryTick)

(* ---- an SSEClient driven directly through its public interface ---- *)

ClientInit ==
  /\ Constructed
  /\ MainLoaded
  /\ build = "src/main.ts"
  /\ sseClient = RecorderClient
  /\ eventSourceAvailable \in BOOLEAN
  /\ payload = EmptyObject
  /\ verdict = NoVerdict
  /\ lastOp = "newClient"

\* client.connect()
ClientConnect ==
  /\ Apply(connect(State))
  /\ lastOp' = "connect"
  /\ lastInput' = NoInput

\* client.disconnect()
ClientDisconnect ==
  /\ Apply(disconnect(State))
  /\ lastOp' = "disconnect"
  /\ lastInput' = NoInput

ClientNext ==
  \/ ClientConnect
  \/ ClientDisconnect
  \/ TransportOpen
  \/ TransportErrorTransient
  \/ TransportErrorClosed
  \/ TransportNavUpdate
  \/ TransportDefaultMessage
  \/ TransportKeepAlive
  \/ Tick

ClientSpec == ClientInit /\ [][ClientNext]_vars

(* ---- the two delivery paths applied to one decoded payload ---- *)

ValidationInit ==
  /\ Constructed
  /\ MainLoaded
  /\ build = "src/main.ts"
  /\ sseClient = NoClient
  /\ eventSourceAvailable = TRUE
  /\ payload \in Payloads
  /\ verdict = NoVerdict
  /\ lastOp = "new"

Outcome(r) == IF r.cb /= <<>> THEN "forwarded" ELSE "dropped"

\* a nav_update event carrying the payload arrives at a Connected Push Client
PushPath ==
  /\ verdict.push = "unchecked"
  /\ LET connected == [State EXCEPT !.sseClient = [NewClient EXCEPT !.state = CONNECTED,
                                                                    !.eventSource = ES_OPEN]]
         event == [data |-> "string", parsed |-> payload]
     IN verdict' = [verdict EXCEPT !.push = Outcome(handleNavUpdate(connected, event))]
  /\ lastOp' = "pushPath"
  /\ UNCHANGED <<progVars, mainVars, eventSourceAvailable, payload, cb, staleForward, logsEventData, lastInput,
                 modeLog, consecErrors, everConnected, starts, connectedSinceDegrade>>

\* a pull fetch settles with a 200 application/json response carrying the payload
PullPath ==
  /\ verdict.pull = "unchecked"
  /\ LET polling == [State EXCEPT !.inflight = <<[overtaken |-> FALSE]>>]
         response == [rejects |-> FALSE, ok |-> TRUE, contentType |-> "application/json",
                      body |-> payload]
     IN verdict' = [verdict EXCEPT !.pull = Outcome(pollRESTContinuation(polling, 1, response))]
  /\ lastOp' = "pullPath"
  /\ UNCHANGED <<progVars, mainVars, eventSourceAvailable, payload, cb, staleForward, logsEventData, lastInput,
                 modeLog, consecErrors, everConnected, starts, connectedSinceDegrade>>

ValidationNext ==
  \/ PushPath
  \/ PullPath

ValidationSpec == ValidationInit /\ [][ValidationNext]_vars

(* ---- main.ts: packets delivered to updateState, validations settling ---- *)

MainInit ==
  /\ Constructed
  /\ MainLoaded
  /\ build \in Builds
  /\ sseClient = NoClient
  /\ eventSourceAvailable = TRUE
  /\ payload = EmptyObject
  /\ verdict = NoVerdict
  /\ lastOp = "load"

ApplyMain(m) ==
  /\ m.validationEpoch <= MaxEpoch
  /\ validationEpoch' = m.validationEpoch
  /\ currentPacket' = m.currentPacket
  /\ validations' = m.validations
  /\ build' = m.build
  /\ UNCHANGED <<progVars, eventSourceAvailable, payload, verdict, cb, staleForward,
                 logsEventData, modeLog, consecErrors, everConnected, starts,
                 connectedSinceDegrade>>

\* onPacket: the consumer passes a packet to updateState
UpdateState ==
  /\ \E packet \in DeliveredPackets :
       ApplyMain(updateState(MainState, packet)) /\ lastInput' = packet
  /\ lastOp' = "updateState"

\* crypto.subtle.importKey settles for a suspended validation
ImportPublicKeySettles ==
  /\ \E v \in validations :
       /\ v.stage = "importPublicKey"
       /\ ApplyMain(afterImportPublicKey(MainState, v))
       /\ lastInput' = v
  /\ lastOp' = "importPublicKey"

\* crypto.subtle.verify settles for a suspended validation
VerifySignatureSettles ==
  /\ \E v \in validations :
       /\ v.stage = "verifySignature"
       /\ ApplyMain(afterVerifySignature(MainState, v))
       /\ lastInput' = v
  /\ lastOp' = "verifySignature"

MainNext ==
  \/ UpdateState
  \/ ImportPublicKeySettles
  \/ VerifySignatureSettles

MainSpec == MainInit /\ [][MainNext]_vars

(* ---------------- properties ---------------- *)

Range(seq) == {seq[i] : i \in 1..Len(seq)}
Count(seq, x) == Cardinality({i \in 1..Len(seq) : seq[i] = x})
Notified(mode) == <<"onModeChange", mode>>
Delivered(source) == <<"onPacket", source>>
TimerOps == {"retryFire", "pollTick", "recoveryTick"}
MessageOps == {"nav_update", "message"}
ValidEvent(e) == e.data = "string" /\ e.parsed.kind = "object" /\ e.parsed.nav = "object"

\* C1: mutual exclusion - the controller never holds a Push Client (sseClient non-null)
\* while the pull-poll interval is armed (restPollingTimer non-null).
C1_MutualExclusion == ~(sseClient /= NoClient /\ restPollingTimer)

\* C1 witness: a transport error of a held client has degraded the controller to polling.
C1_Witness ==
  /\ lastOp = "errorClosed"
  /\ restPollingTimer
  /\ sseClient = NoClient

\* C2: while started, getMode() = REST_DEGRADED exactly when the pull-poll interval is
\* armed, and getMode() = SSE_PRIMARY exactly when a Push Client is held and polling is off.
C2_ModeMatchesMechanism ==
  isStarted =>
    /\ (currentMode = REST_DEGRADED) <=> restPollingTimer
    /\ (currentMode = SSE_PRIMARY) <=> (sseClient /= NoClient /\ ~restPollingTimer)

\* C3: the step that handles the maxRetries-th consecutive push Error leaves the mode
\* REST_DEGRADED with the Push Client disconnected and released; a step that handles an
\* earlier consecutive Error leaves the mode SSE_PRIMARY.
C3_DegradeProperty ==
  [][ /\ (consecErrors' = maxRetries /\ consecErrors = maxRetries - 1) =>
           (currentMode' = REST_DEGRADED /\ sseClient' = NoClient /\ orphans' = 0)
      /\ (consecErrors' = consecErrors + 1 /\ consecErrors' < maxRetries) =>
           currentMode' = SSE_PRIMARY ]_vars

\* C4: once a push Connected has been handled, and until the next degrade, the pull-poll
\* interval is cancelled and the mode is SSE_PRIMARY, and no pull-poll tick fires.
C4_RecoveryProperty ==
  [][ /\ connectedSinceDegrade' => (~restPollingTimer' /\ currentMode' = SSE_PRIMARY)
      /\ lastOp' = "pollTick" => ~connectedSinceDegrade ]_vars

\* C4 witness: a degraded controller whose recovery attempt has just reached Connected.
C4_Witness ==
  /\ lastOp = "open"
  /\ connectedSinceDegrade
  /\ Len(modeLog) >= 2
  /\ modeLog[Len(modeLog) - 1] = REST_DEGRADED
  /\ modeLog[Len(modeLog)] = SSE_PRIMARY
  /\ sseClient.state = CONNECTED
  /\ currentMode = SSE_PRIMARY /\ ~restPollingTimer

\* C5: on a fresh started controller the step that handles the 5th consecutive push Error
\* invokes onModeChange(REST_DEGRADED), for the first and only time, and issues a pull
\* request in that same step (not on an interval tick).
C5_ForcedDegrade ==
  [][ (/\ consecErrors' = maxRetries /\ consecErrors = maxRetries - 1
       /\ starts' = 1 /\ ~everConnected')
      => /\ Count(modeLog', REST_DEGRADED) = 1
         /\ Count(cb', Notified(REST_DEGRADED)) = 1
         /\ inflight' = Append(inflight, [overtaken |-> FALSE])
         /\ lastOp' \notin {"pollTick"} ]_vars

\* C5 witness: the fresh controller right after its 5th consecutive error.
C5_Witness ==
  /\ starts = 1 /\ ~everConnected /\ consecErrors = maxRetries
  /\ lastOp = "errorClosed"
  /\ Notified(REST_DEGRADED) \in Range(cb)
  /\ Len(inflight) = 1

\* C6: on a fresh controller, start() followed by the push transport reaching Connected
\* has invoked onModeChange(SSE_PRIMARY) exactly once.
C6_HappyPathNotifiesOnce ==
  (/\ starts = 1 /\ isStarted /\ lastOp = "open"
   /\ sseClient.state = CONNECTED /\ REST_DEGRADED \notin Range(modeLog))
  => Count(modeLog, SSE_PRIMARY) = 1

\* C7: stop() on a started controller leaves no Push Client and no running transport,
\* no pull-poll, recovery or retry timer, an error counter of 0 and isActive() false.
C7_StopPostcondition ==
  [][ (lastOp' = "stop" /\ isStarted) =>
        /\ sseClient' = NoClient /\ orphans' = 0
        /\ ~restPollingTimer' /\ ~sseRecoveryTimer' /\ retryTimer' = "null"
        /\ sseErrorCount' = 0 /\ ~isStarted' ]_vars

\* C7 witness: stop() has run on a controller that had a client in Error and a retry pending.
C7_Witness ==
  /\ lastOp = "stop" /\ ~isStarted /\ starts = 1
  /\ consecErrors \in 1..(maxRetries - 1)
  /\ retryTimer = "null"

\* C8: while the controller is stopped no onPacket, onModeChange or onError callback is
\* invoked and no controller timer fires.
C8_SilentAfterStop ==
  ~isStarted => (cb = <<>> /\ lastOp \notin TimerOps)

\* C9: on a controller that has recovered from polling to a Push Client (never stopped),
\* no packet is delivered with source REST_DEGRADED while the Push Client is held.
C9_PendingPullDiscarded ==
  (starts = 1 /\ isStarted /\ sseClient /= NoClient /\ ~restPollingTimer)
  => Delivered(REST_DEGRADED) \notin Range(cb)

\* C10: start() on a started controller and stop() on a non-started controller change no
\* state and invoke no callback.
C10_Idempotence ==
  [][ ((lastOp' = "start" /\ isStarted) \/ (lastOp' = "stop" /\ ~isStarted))
      => (UNCHANGED progVars /\ cb' = <<>> /\ modeLog' = modeLog) ]_vars

\* C10 witness: start() was called on a controller whose Push Client is already Connected.
C10_Witness ==
  /\ lastOp = "start" /\ isStarted
  /\ sseClient.state = CONNECTED

C12_Throttle ==
  [][ (lastOp' \in MessageOps /\ ValidEvent(lastInput')) =>
        IF sseClient.sinceForward < throttleMs
        THEN cb' = <<>> /\ UNCHANGED progVars
        ELSE /\ cb' = <<Delivered(SSE_PRIMARY)>>
             /\ sseClient'.sinceForward = 0
             /\ sseClient'.sinceLast = 0 ]_vars

\* C12 witness: a valid message was dropped because it came within the throttle window.
C12_Witness ==
  /\ lastOp \in MessageOps /\ ValidEvent(lastInput)
  /\ sseClient.sinceForward < throttleMs
  /\ cb = <<>>

\* C13: no lock-up - under fair timers, whatever the push transport does, it is always
\* eventually the case that the controller is not started, or its Push Client is Connected,
\* or the pull-poll interval is armed.
C13_NoLockUp ==
  []<>(~isStarted \/ sseClient.state = CONNECTED \/ restPollingTimer)

\* C14: steady degraded mode - on a runtime where EventSource objects can be created, once
\* the first onModeChange(REST_DEGRADED) has been issued and as long as no push connection
\* has become Connected, every state in which no push attempt is pending has
\* getMode() = REST_DEGRADED and has seen no further onModeChange.
C14_SteadyDegraded ==
  (/\ isStarted /\ starts = 1 /\ eventSourceAvailable
   /\ ~everConnected
   /\ modeLog /= <<>>
   /\ sseClient = NoClient)
  => (currentMode = REST_DEGRADED /\ modeLog = <<REST_DEGRADED>>)

PullFailure(r) ==
  \/ r.rejects
  \/ ~r.ok
  \/ r.contentType /= "application/json"
  \/ r.body.kind = "unparseable"
  \/ ~isValidPacketStructure(r.body)

\* C15: a pull fetch that settles with a failure (network error, non-2xx status, wrong
\* content type, parse failure, shape failure) invokes no callback and leaves the mode, the
\* pull-poll interval, the recovery interval, the retry timer, the error counter and the
\* Push Client unchanged.
C15_PullFailureAbsorbed ==
  [][ (lastOp' = "fetchSettle" /\ PullFailure(lastInput')) =>
        /\ cb' = <<>>
        /\ UNCHANGED <<isStarted, currentMode, restPollingTimer, sseRecoveryTimer,
                       retryTimer, retryDelay, sseErrorCount, sseClient, modeLog>> ]_vars

\* C15 witness: a pull response with HTTP error status settled while polling is armed.
C15_Witness ==
  /\ lastOp = "fetchSettle" /\ ~lastInput.rejects /\ ~lastInput.ok
  /\ restPollingTimer /\ currentMode = REST_DEGRADED
  /\ cb = <<>>

Malformed(e) ==
  \/ e.data \in {"empty", "non_string", "too_large"}
  \/ e.parsed.kind /= "object"
  \/ e.parsed.nav /= "object"

\* C16: a data-update message whose data is not a string, is too large, does not parse, or
\* parses to something without a nav object invokes no callback and leaves the Push
\* Client's state, the delivery mode and the error counter unchanged.
C16_MalformedDropped ==
  [][ (lastOp' \in MessageOps /\ Malformed(lastInput')) =>
        /\ cb' = <<>>
        /\ sseClient'.state = sseClient.state
        /\ sseClient'.sinceLast = sseClient.sinceLast
        /\ UNCHANGED <<currentMode, sseErrorCount, modeLog>> ]_vars

\* C16 witness: a parseable object without nav reached a Connected client outside the
\* throttle window and was dropped.
C16_Witness ==
  /\ lastOp = "nav_update"
  /\ lastInput.data = "string" /\ lastInput.parsed = EmptyObject
  /\ sseClient.state = CONNECTED /\ sseClient.sinceLast = throttleMs
  /\ cb = <<>>

\* C17: no handler run of the Push Client or the controller passes the content of a
\* message or of a pull response to a log statement.
C17_NoPayloadLogged == ~logsEventData

TransportOps == {"open", "errorTransient", "errorClosed", "nav_update", "message", "keep_alive"}
StateChanged(state) == <<"onStateChange", state>>

\* C18: connect() changes nothing and fires nothing when the client is Connecting or
\* Connected; in Disconnected or Error (on a runtime where EventSource objects can be
\* created) it leaves the client Connecting with a transport being opened and has fired
\* exactly onStateChange(Connecting).
C18_Connect ==
  [][ lastOp' = "connect" =>
        IF sseClient.state \in {CONNECTING, CONNECTED}
        THEN sseClient' = sseClient /\ cb' = <<>>
        ELSE eventSourceAvailable =>
               /\ sseClient'.state = CONNECTING
               /\ sseClient'.eventSource = ES_CONNECTING
               /\ cb' = <<StateChanged(CONNECTING)>> ]_vars

\* C19: disconnect() on a client holding a transport closes it (no transport is left
\* running), releases it, leaves the client Disconnected and fires exactly
\* onStateChange(Disconnected); on a client holding none it changes nothing and fires
\* nothing, so a repeated disconnect() is a no-op; and open / error / message events are
\* only ever handled by a client that holds a transport that has not been closed.
C19_DisconnectRepeatable ==
  [][ /\ lastOp' = "disconnect" =>
           IF sseClient.eventSource /= ES_NULL
           THEN /\ sseClient'.eventSource = ES_NULL
                /\ sseClient'.state = DISCONNECTED
                /\ orphans' = orphans
                /\ cb' = <<StateChanged(DISCONNECTED)>>
           ELSE sseClient' = sseClient /\ orphans' = orphans /\ cb' = <<>>
      /\ lastOp' \in TransportOps => Live(sseClient) = 1 ]_vars

\* C19 witness: a Connected client has been disconnected.
C19_Witness ==
  /\ lastOp = "disconnect"
  /\ cb = <<StateChanged(DISCONNECTED)>>
  /\ sseClient.state = DISCONNECTED /\ sseClient.eventSource = ES_NULL
  /\ sseClient.sinceForward < throttleMs

\* C20: once both delivery paths have handled the same decoded payload, either both have
\* forwarded it to the consumer or both have dropped it.
C20_SameShapeRules ==
  (verdict.push /= "unchecked" /\ verdict.pull /= "unchecked")
    => verdict.push = verdict.pull

Tier0Fields(p) == p.nav = "object" /\ p.regime /\ p.risk /\ p.confidence
Tier1Fields(p) ==
  /\ Tier0Fields(p) /\ p.bias /\ p.stability
  /\ p.meta = "object" /\ p.signature /\ p.kid /\ p.issued_at
Tier2Fields(p) ==
  /\ Tier1Fields(p)
  /\ p.navigator = "object" /\ p.drivers /\ p.blockers /\ p.gaps

\* C21: a payload that the strict structural validation lets through (here: on the pull
\* path) has a tier in {0, 1, 2} (0 when meta.tier is undefined) and every required field
\* of that tier: tier 0 regime, risk, confidence; tier 1 these plus bias, stability and
\* meta signature, kid, issued_at; tier 2 these plus navigator drivers, blockers, gaps.
C21_StrictValidation ==
  verdict.pull = "forwarded" =>
    LET tier == IF payload.tier = NoTier THEN 0 ELSE payload.tier
    IN /\ tier \in {0, 1, 2}
       /\ tier = 0 => Tier0Fields(payload)
       /\ tier = 1 => Tier1Fields(payload)
       /\ tier = 2 => Tier2Fields(payload)

Errored(calls) == <<"onError", "lifecycle">> \in Range(calls)

\* C22: the step in which the controller handles a push state change to Connected ends
\* with the error counter 0, no retry timer pending and the mode SSE_PRIMARY.
C22_ConnectedResets ==
  [][ (lastOp' = "open" /\ sseClient.state /= CONNECTED) =>
        /\ sseErrorCount' = 0
        /\ retryTimer' /= "pending"
        /\ currentMode' = SSE_PRIMARY ]_vars

\* C22 witness: the first recovery attempt after a degrade (counter at maxRetries or more)
\* has reached Connected.
C22_Witness ==
  /\ lastOp = "open" /\ starts = 1
  /\ modeLog = <<REST_DEGRADED, SSE_PRIMARY>>
  /\ sseErrorCount = 0 /\ retryTimer = "null" /\ currentMode = SSE_PRIMARY

\* C24: a step that handles a push Error bringing the counter to n < maxRetries ends in
\* mode SSE_PRIMARY with the retry timer pending, the failed client still held and no
\* polling; the step in which the retry timer fires leaves no transport of the old client
\* running and ends with a fresh client (or, if that one failed at once for the
\* maxRetries-th time, with the controller polling); no transport ever runs unreferenced.
C24_RetryStep ==
  [][ /\ (Errored(cb') /\ sseErrorCount' < maxRetries) =>
           /\ currentMode' = SSE_PRIMARY
           /\ retryTimer' = "pending"
           /\ sseClient' /= NoClient /\ ~restPollingTimer'
      /\ lastOp' = "retryFire" =>
           /\ sseClient' = NoClient => restPollingTimer'
           /\ sseClient' /= NoClient =>
                (/\ sseClient'.state \in {CONNECTING, ERROR}
                 /\ sseClient'.sinceLast = throttleMs)
      /\ orphans' = 0 ]_vars

\* C24 witness: the retry timer has fired and a fresh client is connecting.
C24_Witness ==
  /\ lastOp = "retryFire" /\ retryTimer = "stale"
  /\ sseClient.state = CONNECTING /\ sseErrorCount = 2

\* C27: the onModeChange arguments since construction alternate, the last one is the
\* current mode, and while there has been none the mode is still the initial SSE_PRIMARY.
C27_ModeNotificationsAlternate ==
  /\ \A i \in 1..(Len(modeLog) - 1) : modeLog[i] /= modeLog[i + 1]
  /\ modeLog /= <<>> => modeLog[Len(modeLog)] = currentMode
  /\ modeLog = <<>> => currentMode = SSE_PRIMARY

\* C27 witness: start() after a stop() in REST_DEGRADED has notified SSE_PRIMARY.
C27_Witness ==
  /\ lastOp = "start" /\ starts = 2
  /\ modeLog = <<REST_DEGRADED, SSE_PRIMARY>>
  /\ cb = <<Notified(SSE_PRIMARY)>>

\* C28: whenever the retry timer is pending the controller is started, holds a Push
\* Client, has neither the pull-poll nor the recovery interval armed and is in mode
\* SSE_PRIMARY (so the timer fires neither in REST_DEGRADED nor after stop()).
C28_RetryOnlyInPushMode ==
  retryTimer = "pending" =>
    /\ isStarted
    /\ sseClient /= NoClient
    /\ ~restPollingTimer /\ ~sseRecoveryTimer
    /\ currentMode = SSE_PRIMARY

\* C28 witness: a retry is pending after an Error that followed a recovery to Connected.
C28_Witness ==
  /\ retryTimer = "pending" /\ lastOp = "errorClosed"
  /\ everConnected /\ REST_DEGRADED \in Range(modeLog)

\* C26: the error counter is not reset by a degrade: a step that handles a push Error when
\* the counter already is maxRetries or more ends in mode REST_DEGRADED with both
\* intervals armed, the client released and no retry pending; and the counter returns to
\* 0 only in a step that handles Connected, an accepted push message, or stop().
C26_ImmediateRedegrade ==
  [][ /\ (Errored(cb') /\ sseErrorCount >= maxRetries) =>
           /\ currentMode' = REST_DEGRADED
           /\ restPollingTimer' /\ sseRecoveryTimer'
           /\ sseClient' = NoClient
           /\ retryTimer' /= "pending"
           /\ sseErrorCount' = sseErrorCount + 1
      /\ (sseErrorCount' = 0 /\ sseErrorCount > 0) =>
           lastOp' \in {"open", "nav_update", "message", "stop"} ]_vars

\* C23: silent-stream detection - a Push Client does not stay Connected on an open
\* transport that has delivered neither a packet nor a keep-alive for SilenceLimit whole
\* minutes; by then the push-error path has been entered.
C23_SilentStreamDetected ==
  ~(/\ sseClient.state = CONNECTED
    /\ sseClient.eventSource = ES_OPEN
    /\ sseClient.silence >= SilenceLimit)

\* C29: within one degraded period (one degrade, no recovery attempt since) no pull
\* response is forwarded to onPacket after the response to a later request was.
C29_PullOrder ==
  (/\ modeLog = <<REST_DEGRADED>> /\ currentMode = REST_DEGRADED
   /\ restPollingTimer /\ lastOp = "fetchSettle")
  => ~staleForward

SettleOps == {"importPublicKey", "verifySignature"}

\* C25: validationEpoch never decreases, and whenever currentPacket is written the value
\* comes from the delivery (or sanitizeAll) that holds the current epoch, i.e. from one
\* later than the delivery whose value it replaces.
C25_StaleResultsDiscarded ==
  [][ /\ validationEpoch' >= validationEpoch
      /\ currentPacket' /= currentPacket =>
           (/\ currentPacket'.from = validationEpoch'
            /\ currentPacket'.from > currentPacket.from) ]_vars

\* C25 witness: the validation of an older delivery settled after a later delivery had
\* been shown, and was discarded.
C25_Witness ==
  /\ lastOp \in SettleOps
  /\ lastInput.epoch < validationEpoch
  /\ currentPacket.shown = "packet" /\ currentPacket.from > lastInput.epoch

\* C30: signature gating - a packet is stored and rendered at tier 1 or 2 only if
\* verifySignature returned true for it.
C30_SignatureGating ==
  currentPacket.tier >= 1 => currentPacket.signatureValid

====
